---- MODULE Spec2Model ----
(***************************************************************************)
(* Model of go-ninja's Connection (api/Connection.go): topic subscriptions *)
(* with reflective callback adaptation, and service export / announcement  *)
(* with the in-process discovery registry.                                 *)
(***************************************************************************)
EXTENDS Integers, Sequences, FiniteSets, TLC

(* ------------------------------ bounds -------------------------------- *)
MaxTasks == 2      \* handler invocations the bus may have running at once
MaxMsgs == 3       \* inbound messages delivered to the subscription
MaxProcs == 2      \* goroutines calling exportService concurrently
MaxExports == 2    \* exportService calls made after Connect
MaxSegs == 4       \* segments of a concrete topic given to MatchTopicPattern
MaxPublishes == 3  \* messages PublishRaw / PublishRawSingleValue put on the bus
MaxGets == 3       \* calls of schemas.GetSchema

Tasks == 1..MaxTasks
Procs == 1..MaxProcs

VARIABLES
    subState,     \* "none" | "rejected" | "subscribing" | "active"
    subRpc,       \* the rpc flag passed to subscribe
    subTemplate,  \* the topic template passed to subscribe
    subShape,     \* reflect-level shape of the callback passed to subscribe
    subErr,       \* subscribe returned a non-nil error
    busSubs,      \* number of bus-level Subscribe calls issued
    subHandle,    \* the captured variable sub: "nil" | "set"
    busCancelled, \* the bus-level subscription has been torn down
    finished,     \* the captured variable finished
    tasks,        \* per running handler: position and locals
    delivered,    \* messages handed to the handler so far
    falseSeen,    \* some callback invocation has returned false
    cancelCalls,  \* number of sub.Cancel() calls made by the handler
    panicked,     \* sub.Cancel() was called through a nil handle
    lastMsg,      \* the message the handler was run for last, and whether it dropped it
    falseReturns, \* number of callback invocations that returned false
    lastDropSeq,  \* delivery number of the last message the adapter failed to decode
    services,     \* Connection.services
    published,    \* "announce" events sent on the bus, in order
    procs,        \* per exporting goroutine: position and locals
    exportCalls,  \* exportService calls started after Connect
    bound,        \* event handler bound on each service object
    lastEmit,     \* outcome of the latest event emitted through a bound handler
    lastReturn,   \* the exportService call that returned last, and its result
    mTemplate,    \* MatchTopicPattern: the pattern argument
    mTopic,       \* MatchTopicPattern: the topic argument
    mResult,      \* MatchTopicPattern: what the call returned
    busLog,       \* messages published on the bus by PublishRaw*
    lastPublish,  \* the latest PublishRaw* call and what it returned
    schemasCache, \* schemas.schemasCache: local URL -> schemaResponse
    built,        \* per local URL: schema documents built for it so far
    gets,         \* GetSchema calls made so far
    lastGet,      \* the latest GetSchema call and what it returned
    firstGet      \* per local URL: what the first GetSchema call for it returned

subVars == <<subState, subRpc, subTemplate, subShape, subErr, busSubs, subHandle,
             busCancelled, finished, tasks, delivered, falseSeen, cancelCalls, panicked,
             lastMsg, falseReturns, lastDropSeq>>
expVars == <<services, published, procs, exportCalls, bound, lastEmit, lastReturn>>
schVars == <<schemasCache, built, gets, lastGet, firstGet>>
fnVars == <<mTemplate, mTopic, mResult, busLog, lastPublish,
            schemasCache, built, gets, lastGet, firstGet>>
vars == <<subState, subRpc, subTemplate, subShape, subErr, busSubs, subHandle,
          busCancelled, finished, tasks, delivered, falseSeen, cancelCalls, panicked,
          lastMsg, falseReturns, lastDropSeq, services, published, procs, exportCalls,
          bound, lastEmit, lastReturn, mTemplate, mTopic, mResult, busLog, lastPublish,
          schemasCache, built, gets, lastGet, firstGet>>

(* --------------------------- topic templates -------------------------- *)
Lit(s) == [kind |-> "lit", name |-> s]
Ph(s) == [kind |-> "ph", name |-> s]

\* templates a caller subscribes with: "dev/:id" and "dev/#"
Templates == { <<Lit("dev"), Ph("id")>>, <<Lit("dev"), Lit("#")>> }

\* concrete topics published on the bus
Topics == { <<"dev", "a">>, <<"dev", "b">>, <<"dev", "a", "x">>, <<"cfg", "a">> }

NoValues == {}

\* GetSubscribeTopic: every placeholder segment becomes the single-level wildcard
GetSubscribeTopic(template) ==
    [i \in 1..Len(template) |->
        IF template[i].kind = "ph" THEN "+" ELSE template[i].name]

\* variant: the pattern is matched as a prefix of the topic
MatchTopicPatternPrefix(template, topic) ==
    IF Len(template) > Len(topic)
    THEN [ok |-> FALSE, values |-> NoValues]
    ELSE IF \E i \in 1..Len(template) :
                template[i].kind = "lit" /\ template[i].name # topic[i]
         THEN [ok |-> FALSE, values |-> NoValues]
         ELSE [ok |-> TRUE,
               values |-> { <<template[i].name, topic[i]>> :
                              i \in { j \in 1..Len(template) : template[j].kind = "ph" } }]

\* MatchTopicPattern: equal segment count, literal segments equal, each
\* placeholder captures the segment at its position
MatchTopicPattern(template, topic) ==
    IF Len(template) # Len(topic)
    THEN [ok |-> FALSE, values |-> NoValues]
    ELSE IF \E i \in 1..Len(template) :
                template[i].kind = "lit" /\ template[i].name # topic[i]
         THEN [ok |-> FALSE, values |-> NoValues]
         ELSE [ok |-> TRUE,
               values |-> { <<template[i].name, topic[i]>> :
                              i \in { j \in 1..Len(template) : template[j].kind = "ph" } }]

\* routing by the broker: "+" stands for one segment, a trailing "#" for the rest
BusRoutes(filter, topic) ==
    IF Len(filter) > 0 /\ filter[Len(filter)] = "#"
    THEN /\ Len(topic) >= Len(filter) - 1
         /\ \A i \in 1..(Len(filter) - 1) : filter[i] = "+" \/ filter[i] = topic[i]
    ELSE /\ Len(topic) = Len(filter)
         /\ \A i \in 1..Len(filter) : filter[i] = "+" \/ filter[i] = topic[i]

(* --------------------------- callback shapes -------------------------- *)
\* what reflection sees of the value passed as callback
Shapes ==
    { [kind |-> "other", numIn |-> 0, in0 |-> "none", in1 |-> "none",
       numOut |-> 0, out0 |-> "none"] }
    \cup
    { s \in [kind : {"func"}, numIn : 0..3,
             in0 : {"none", "rawptr", "structptr", "nonptr"},
             in1 : {"none", "map", "other"},
             numOut : 0..2, out0 : {"none", "bool", "other"}] :
        /\ (s.in0 = "none") <=> (s.numIn = 0)
        /\ (s.in1 = "none") <=> (s.numIn < 2)
        /\ (s.out0 = "none") <=> (s.numOut = 0) }

\* the type of dummyRawCallback: func(*json.RawMessage, map[string]string) bool
IsRawCallbackType(s) ==
    /\ s.kind = "func" /\ s.numIn = 2 /\ s.in0 = "rawptr" /\ s.in1 = "map"
    /\ s.numOut = 1 /\ s.out0 = "bool"

\* variant: the first parameter is not required to be a pointer
getAdapterNoPtrCheck(s) ==
    IF IsRawCallbackType(s) THEN [err |-> FALSE, direct |-> TRUE, argCount |-> 2]
    ELSE IF s.kind # "func" THEN [err |-> TRUE, direct |-> FALSE, argCount |-> 0]
    ELSE IF s.numIn = 2 /\ s.in1 # "map" THEN [err |-> TRUE, direct |-> FALSE, argCount |-> 0]
    ELSE IF s.numIn > 2 THEN [err |-> TRUE, direct |-> FALSE, argCount |-> 0]
    ELSE IF s.numOut # 1 THEN [err |-> TRUE, direct |-> FALSE, argCount |-> 0]
    ELSE IF s.out0 # "bool" THEN [err |-> TRUE, direct |-> FALSE, argCount |-> 0]
    ELSE [err |-> FALSE, direct |-> FALSE, argCount |-> s.numIn]

\* the type of dummyRawCallback is accepted as is; every other callback is
\* inspected.
\* getAdapter: the checks in the order the code makes them
getAdapter(s) ==
    IF IsRawCallbackType(s) THEN [err |-> FALSE, direct |-> TRUE, argCount |-> 2]
    ELSE IF s.kind # "func" THEN [err |-> TRUE, direct |-> FALSE, argCount |-> 0]
    ELSE IF s.numIn = 2 /\ s.in1 # "map" THEN [err |-> TRUE, direct |-> FALSE, argCount |-> 0]
    ELSE IF s.numIn \in {1, 2} /\ s.in0 \notin {"rawptr", "structptr"}
         THEN [err |-> TRUE, direct |-> FALSE, argCount |-> 0]
    ELSE IF s.numIn > 2 THEN [err |-> TRUE, direct |-> FALSE, argCount |-> 0]
    ELSE IF s.numOut # 1 THEN [err |-> TRUE, direct |-> FALSE, argCount |-> 0]
    ELSE IF s.out0 # "bool" THEN [err |-> TRUE, direct |-> FALSE, argCount |-> 0]
    ELSE [err |-> FALSE, direct |-> FALSE, argCount |-> s.numIn]

(* ------------------------------ payloads ------------------------------ *)
\* "good": well formed and of the callback's target shape; "badshape": valid
\* JSON that does not unmarshal into the target type; "badparams": a valid RPC
\* envelope whose params cannot be read; "badjson": not JSON at all
PayloadKinds(rpc) ==
    IF rpc THEN {"good", "badshape", "badparams", "badjson"}
    ELSE {"good", "badshape", "badjson"}

IdleTask == [pc |-> "idle", seq |-> 0, topic |-> <<>>, matched |-> FALSE,
             values |-> NoValues, params |-> "none", args |-> <<>>, late |-> FALSE]

NoShape == [kind |-> "other", numIn |-> 0, in0 |-> "none", in1 |-> "none",
            numOut |-> 0, out0 |-> "none"]

(* -------------------------- announcements ----------------------------- *)
RootHost == "http://schema.ninjablocks.com"

\* url.ResolveReference against rootSchemaURL: a relative reference takes the
\* root's scheme and host, an absolute one is kept
resolveSchemaURI(uri) ==
    IF uri.host = "" THEN [host |-> RootHost, path |-> uri.path] ELSE uri

Unset == [set |-> FALSE, val |-> <<>>]
Some(v) == [set |-> TRUE, val |-> v]

(* ----------------------- subscription handler ------------------------- *)
\* variant: a message whose topic does not match the template is dropped
handlerEntryDropMismatch(fin, rpc, template, topic, kind) ==
    LET m == MatchTopicPattern(template, topic)
    IN  IF fin \/ ~m.ok \/ kind = "badjson"
        THEN [drop |-> TRUE, matched |-> m.ok, values |-> NoValues, params |-> "none"]
        ELSE [drop |-> FALSE, matched |-> m.ok, values |-> m.values,
              params |-> IF kind = "good" THEN "ok"
                         ELSE IF kind = "badshape" THEN "bad"
                         ELSE "empty"]

\* the handler closure up to the adapter call (Connection.subscribe, the
\* function literal): finished check, topic match, payload unwrapping
handlerEntry(fin, rpc, template, topic, kind) ==
    LET m == MatchTopicPattern(template, topic)
        values == IF m.ok THEN m.values ELSE NoValues
    IN  IF fin
        THEN [drop |-> TRUE, matched |-> m.ok, values |-> NoValues, params |-> "none"]
        ELSE IF kind = "badjson"
        THEN [drop |-> TRUE, matched |-> m.ok, values |-> values, params |-> "none"]
        ELSE [drop |-> FALSE, matched |-> m.ok, values |-> values,
              params |-> IF kind = "good" THEN "ok"
                         ELSE IF kind = "badshape" THEN "bad"
                         ELSE "empty"]

\* json.Unmarshal(*params, arg.Interface()) for a fresh value of the target type
Decodes(in0, params) ==
    \/ params = "ok"
    \/ params = "bad" /\ in0 = "rawptr"

\* variant: a payload that fails to decode makes the adapter return false
invokeDecodeFailureStops(shape, params, values) ==
    LET a == getAdapter(shape)
    IN  IF a.direct THEN [call |-> TRUE, args |-> <<params, values>>, ret |-> TRUE]
        ELSE IF a.argCount = 0 THEN [call |-> TRUE, args |-> <<>>, ret |-> TRUE]
        ELSE IF ~Decodes(shape.in0, params)
             THEN [call |-> FALSE, args |-> <<>>, ret |-> FALSE]
        ELSE IF a.argCount = 1 THEN [call |-> TRUE, args |-> <<"decoded">>, ret |-> TRUE]
        ELSE [call |-> TRUE, args |-> <<"decoded", values>>, ret |-> TRUE]

\* variant: the placeholders are not handed to a 2-parameter callback
invokeNoPlaceholders(shape, params, values) ==
    LET a == getAdapter(shape)
    IN  IF a.direct THEN [call |-> TRUE, args |-> <<params, values>>, ret |-> TRUE]
        ELSE IF a.argCount = 0 THEN [call |-> TRUE, args |-> <<>>, ret |-> TRUE]
        ELSE IF ~Decodes(shape.in0, params)
             THEN [call |-> FALSE, args |-> <<>>, ret |-> TRUE]
        ELSE IF a.argCount = 1 THEN [call |-> TRUE, args |-> <<"decoded">>, ret |-> TRUE]
        ELSE [call |-> TRUE, args |-> <<"decoded", NoValues>>, ret |-> TRUE]

\* adapter.invoke up to the reflective call: whether the function is called
\* and with which arguments; ret is what the adapter returns when it does not
\* call the function (a payload that fails to decode: true)
invoke(shape, params, values) ==
    LET a == getAdapter(shape)
    IN  IF a.direct THEN [call |-> TRUE, args |-> <<params, values>>, ret |-> TRUE]
        ELSE IF a.argCount = 0 THEN [call |-> TRUE, args |-> <<>>, ret |-> TRUE]
        ELSE IF ~Decodes(shape.in0, params)
             THEN [call |-> FALSE, args |-> <<>>, ret |-> TRUE]
        ELSE IF a.argCount = 1 THEN [call |-> TRUE, args |-> <<"decoded">>, ret |-> TRUE]
        ELSE [call |-> TRUE, args |-> <<"decoded", values>>, ret |-> TRUE]

\* variant: the adapter reports "stop" whatever the callback returned
adapterResultAlwaysStop(r) == FALSE

\* adapter.invoke's result when the function was called: the callback's
\* boolean, a.function.Call(args)[0].Interface().(bool)
adapterResult(r) == r

\* Subscribe / SubscribeRaw -> subscribe, up to the bus-level Subscribe call
Subscribe(rpc, template, shape) ==
    /\ subState = "none"
    /\ subShape' = shape
    /\ subRpc' = rpc
    /\ subTemplate' = template
    /\ IF getAdapter(shape).err
       THEN /\ subState' = "rejected"
            /\ subErr' = TRUE
            /\ busSubs' = busSubs
       ELSE /\ subState' = "subscribing"
            /\ subErr' = FALSE
            /\ busSubs' = busSubs + 1
    /\ UNCHANGED <<subHandle, busCancelled, finished, tasks, delivered, falseSeen,
                   cancelCalls, panicked, lastMsg, falseReturns, lastDropSeq>>
    /\ UNCHANGED expVars
    /\ UNCHANGED fnVars

\* c.mqtt.Subscribe returns and its result is stored in sub
SubscribeReturn ==
    /\ subState = "subscribing"
    /\ ~panicked
    /\ subState' = "active"
    /\ subHandle' = "set"
    /\ UNCHANGED <<subRpc, subTemplate, subShape, subErr, busSubs, busCancelled,
                   finished, tasks, delivered, falseSeen, cancelCalls, panicked, lastMsg,
                   falseReturns, lastDropSeq>>
    /\ UNCHANGED expVars
    /\ UNCHANGED fnVars

\* the bus runs the handler for one inbound message, up to the adapter call
Deliver(t, topic, kind) ==
    /\ subState \in {"subscribing", "active"}
    /\ ~busCancelled
    /\ ~panicked
    /\ tasks[t].pc = "idle"
    /\ delivered < MaxMsgs
    /\ BusRoutes(GetSubscribeTopic(subTemplate), topic)
    /\ kind \in PayloadKinds(subRpc)
    /\ delivered' = delivered + 1
    /\ LET h == handlerEntry(finished, subRpc, subTemplate, topic, kind)
       IN  /\ tasks' = IF h.drop THEN tasks
                       ELSE [tasks EXCEPT ![t] =
                               [pc |-> "adapter", seq |-> delivered + 1,
                                topic |-> topic, matched |-> h.matched,
                                values |-> h.values, params |-> h.params,
                                args |-> <<>>, late |-> FALSE]]
           /\ lastMsg' = [topic |-> topic, kind |-> kind, dropped |-> h.drop]
    /\ UNCHANGED <<subState, subRpc, subTemplate, subShape, subErr, busSubs, subHandle,
                   busCancelled, finished, falseSeen, cancelCalls, panicked,
                   falseReturns, lastDropSeq>>
    /\ UNCHANGED expVars
    /\ UNCHANGED fnVars

\* the adapter runs: decode, then enter the user callback; when the payload
\* does not decode the adapter returns at once and the handler acts on that
AdapterInvoke(t) ==
    /\ tasks[t].pc = "adapter"
    /\ ~panicked
    /\ LET i == invoke(subShape, tasks[t].params, tasks[t].values)
       IN  IF i.call
           THEN /\ tasks' = [tasks EXCEPT ![t].pc = "callback", ![t].args = i.args,
                                          ![t].late = falseSeen]
                /\ UNCHANGED <<busCancelled, cancelCalls, panicked, lastDropSeq>>
           ELSE /\ tasks' = [tasks EXCEPT ![t] = IdleTask]
                /\ lastDropSeq' = tasks[t].seq
                /\ IF i.ret
                   THEN UNCHANGED <<busCancelled, cancelCalls, panicked>>
                   ELSE /\ cancelCalls' = cancelCalls + 1
                        /\ IF subHandle = "nil"
                           THEN panicked' = TRUE /\ busCancelled' = busCancelled
                           ELSE panicked' = panicked /\ busCancelled' = TRUE
    /\ UNCHANGED <<subState, subRpc, subTemplate, subShape, subErr, busSubs, subHandle,
                   finished, delivered, falseSeen, lastMsg, falseReturns>>
    /\ UNCHANGED expVars
    /\ UNCHANGED fnVars

\* the user callback returns r; on false the handler calls sub.Cancel()
CallbackReturn(t, r) ==
    /\ tasks[t].pc = "callback"
    /\ ~panicked
    /\ falseSeen' = (falseSeen \/ ~r)
    /\ falseReturns' = IF r THEN falseReturns ELSE falseReturns + 1
    /\ tasks' = [tasks EXCEPT ![t] = IdleTask]
    /\ IF adapterResult(r)
       THEN UNCHANGED <<busCancelled, cancelCalls, panicked>>
       ELSE /\ cancelCalls' = cancelCalls + 1
            /\ IF subHandle = "nil"
               THEN panicked' = TRUE /\ busCancelled' = busCancelled
               ELSE panicked' = panicked /\ busCancelled' = TRUE
    /\ UNCHANGED <<subState, subRpc, subTemplate, subShape, subErr, busSubs, subHandle,
                   finished, delivered, lastMsg, lastDropSeq>>
    /\ UNCHANGED expVars
    /\ UNCHANGED fnVars

(* --------------------------- service export --------------------------- *)
\* service objects handed to exportService: the methods the RPC registrar
\* discovers on them and the SetEventHandler shape they implement
ServiceObjs ==
    { [id |-> 1, methods |-> <<"get", "set", "delete">>, ev |-> "variadic"],
      [id |-> 2, methods |-> <<"get">>, ev |-> "deprecated"] }

DiscoverObj == [id |-> 0, methods |-> <<"services">>, ev |-> "none"]

ServiceIds == {0, 1, 2}

\* caller-declared SupportedMethods (nil pointer = Unset)
DeclaredMethods ==
    { Unset, Some(<<"get", "set">>), Some(<<"get", "set", "rename">>),
      Some(<<"get", "set", "delete", "rename">>) }

\* the topic and the rest of the announcement a caller passes: a device
\* announced with a relative schema URI and no events, a channel announced
\* with an absolute protocol URI and its events
ExportRequests ==
    { [topic |-> "$device/1",
       schema |-> [host |-> "", path |-> "/service/device"],
       events |-> Unset],
      [topic |-> "$device/1/channel/2",
       schema |-> [host |-> RootHost, path |-> "/protocol/power"],
       events |-> Some(<<"state">>)] }

Range(f) == { f[i] : i \in DOMAIN f }

\* variant: the declared method count is not compared with the discovered one
prepareAnnouncementNoLenCheck(svc, topic, ann, regFails) ==
    LET schema == resolveSchemaURI(ann.schema)
    IN  IF regFails
        THEN [err |-> "register", ann |-> [ann EXCEPT !.schema = schema]]
        ELSE [err |-> "none",
              ann |-> [schema |-> schema,
                       topic |-> topic,
                       methods |-> IF ann.methods.set THEN ann.methods
                                   ELSE Some(svc.methods),
                       events |-> IF ann.events.set THEN ann.events ELSE Some(<<>>)]]

\* variant: undeclared methods default to the empty list, like the events
prepareAnnouncementNoAdopt(svc, topic, ann, regFails) ==
    LET schema == resolveSchemaURI(ann.schema)
    IN  IF regFails
        THEN [err |-> "register", ann |-> [ann EXCEPT !.schema = schema]]
        ELSE IF ann.methods.set /\ Len(ann.methods.val) > Len(svc.methods)
        THEN [err |-> "methods", ann |-> [ann EXCEPT !.schema = schema]]
        ELSE [err |-> "none",
              ann |-> [schema |-> schema,
                       topic |-> topic,
                       methods |-> IF ann.methods.set THEN ann.methods ELSE Some(<<>>),
                       events |-> IF ann.events.set THEN ann.events ELSE Some(<<>>)]]

\* variant: unset SupportedEvents are left unset and the topic is not filled in
prepareAnnouncementBare(svc, topic, ann, regFails) ==
    LET schema == resolveSchemaURI(ann.schema)
    IN  IF regFails
        THEN [err |-> "register", ann |-> [ann EXCEPT !.schema = schema]]
        ELSE IF ann.methods.set /\ Len(ann.methods.val) > Len(svc.methods)
        THEN [err |-> "methods", ann |-> [ann EXCEPT !.schema = schema]]
        ELSE [err |-> "none",
              ann |-> [schema |-> schema,
                       topic |-> ann.topic,
                       methods |-> IF ann.methods.set THEN ann.methods
                                   ELSE Some(svc.methods),
                       events |-> ann.events]]

\* exportService from the schema resolution to the topic assignment
\* (everything before the announce event is sent)
prepareAnnouncement(svc, topic, ann, regFails) ==
    LET schema == resolveSchemaURI(ann.schema)
    IN  IF regFails
        THEN [err |-> "register", ann |-> [ann EXCEPT !.schema = schema]]
        ELSE IF ann.methods.set /\ Len(ann.methods.val) > Len(svc.methods)
        THEN [err |-> "methods", ann |-> [ann EXCEPT !.schema = schema]]
        ELSE [err |-> "none",
              ann |-> [schema |-> schema,
                       topic |-> topic,
                       methods |-> IF ann.methods.set THEN ann.methods
                                   ELSE Some(svc.methods),
                       events |-> IF ann.events.set THEN ann.events ELSE Some(<<>>)]]

\* variant: a failed SendEvent is logged and nil is returned
eventHandlerSwallow(kind, sendErr) ==
    [err |-> FALSE, logged |-> sendErr]

\* the closure bound with SetEventHandler, called by the service with an event
\* whose SendEvent fails (sendErr) or succeeds
eventHandler(kind, sendErr) ==
    [err |-> sendErr, logged |-> (kind = "variadic" /\ sendErr)]

\* c.services = append(c.services, x), given the slice value that was read
appendService(snapshot, entry) == Append(snapshot, entry)

IdleProc == [pc |-> "idle", entry |-> <<>>, snapshot |-> <<>>]

\* the inputs of one exportService call, kept with what it publishes and records
\* (regFails / sendFails: RegisterService / SendEvent("announce") fail in it)
CallOf(n, svc, topic, ann, regFails, sendFails) ==
    [id |-> n, svc |-> svc, topic |-> topic, schema |-> ann.schema,
     methods |-> ann.methods, events |-> ann.events,
     regFails |-> regFails, sendFails |-> sendFails]

\* Connect: the discovery service is exported on "$discover"
DiscoverInput == [schema |-> [host |-> "", path |-> "/service/discover"],
                  topic |-> "", methods |-> Unset, events |-> Unset]
DiscoverEntry ==
    [ann |-> prepareAnnouncement(DiscoverObj, "$discover", DiscoverInput, FALSE).ann,
     by |-> CallOf(0, DiscoverObj, "$discover", DiscoverInput, FALSE, FALSE)]

\* variant: the event handler is bound before the announce event is sent
ExportBeginBindsFirst(p, svc, topic, ann, regFails, sendFails) ==
    /\ procs[p].pc = "idle"
    /\ exportCalls < MaxExports
    /\ exportCalls' = exportCalls + 1
    /\ LET r == prepareAnnouncement(svc, topic, ann, regFails)
           call == CallOf(exportCalls + 1, svc, topic, ann, regFails, sendFails)
           entry == [ann |-> r.ann, by |-> call]
       IN  IF r.err # "none"
           THEN /\ lastReturn' = [call |-> call, result |-> r.err]
                /\ UNCHANGED <<published, bound, procs>>
           ELSE IF sendFails
           THEN /\ lastReturn' = [call |-> call, result |-> "announce"]
                /\ bound' = IF svc.ev = "none" THEN bound
                            ELSE [bound EXCEPT ![svc.id] = svc.ev]
                /\ UNCHANGED <<published, procs>>
           ELSE /\ published' = Append(published, entry)
                /\ bound' = IF svc.ev = "none" THEN bound
                            ELSE [bound EXCEPT ![svc.id] = svc.ev]
                /\ procs' = [procs EXCEPT ![p] =
                               [pc |-> "append", entry |-> entry, snapshot |-> <<>>]]
                /\ UNCHANGED lastReturn
    /\ UNCHANGED <<services, lastEmit>>
    /\ UNCHANGED subVars
    /\ UNCHANGED fnVars

\* exportService up to the event-handler binding: resolve, register, check the
\* declared methods, send "announce", bind the event handler
ExportBegin(p, svc, topic, ann, regFails, sendFails) ==
    /\ procs[p].pc = "idle"
    /\ exportCalls < MaxExports
    /\ exportCalls' = exportCalls + 1
    /\ LET r == prepareAnnouncement(svc, topic, ann, regFails)
           call == CallOf(exportCalls + 1, svc, topic, ann, regFails, sendFails)
           entry == [ann |-> r.ann, by |-> call]
       IN  IF r.err # "none"
           THEN /\ lastReturn' = [call |-> call, result |-> r.err]
                /\ UNCHANGED <<published, bound, procs>>
           ELSE IF sendFails
           THEN /\ lastReturn' = [call |-> call, result |-> "announce"]
                /\ UNCHANGED <<published, bound, procs>>
           ELSE /\ published' = Append(published, entry)
                /\ bound' = IF svc.ev = "none" THEN bound
                            ELSE [bound EXCEPT ![svc.id] = svc.ev]
                /\ procs' = [procs EXCEPT ![p] =
                               [pc |-> "append", entry |-> entry, snapshot |-> <<>>]]
                /\ UNCHANGED lastReturn
    /\ UNCHANGED <<services, lastEmit>>
    /\ UNCHANGED subVars
    /\ UNCHANGED fnVars

\* append(c.services, ...): the current slice is read
ExportRead(p) ==
    /\ procs[p].pc = "append"
    /\ procs' = [procs EXCEPT ![p].pc = "write", ![p].snapshot = services]
    /\ UNCHANGED <<services, published, exportCalls, bound, lastEmit, lastReturn>>
    /\ UNCHANGED subVars
    /\ UNCHANGED fnVars

\* c.services = ...: the grown slice is stored and exportService returns
ExportWrite(p) ==
    /\ procs[p].pc = "write"
    /\ services' = appendService(procs[p].snapshot, procs[p].entry)
    /\ lastReturn' = [call |-> procs[p].entry.by, result |-> "ok"]
    /\ procs' = [procs EXCEPT ![p] = IdleProc]
    /\ UNCHANGED <<published, exportCalls, bound, lastEmit>>
    /\ UNCHANGED subVars
    /\ UNCHANGED fnVars

\* an exported service emits an event through its bound handler
Emit(s, sendErr) ==
    /\ bound[s] # "none"
    /\ LET h == eventHandler(bound[s], sendErr)
       IN  lastEmit' = [kind |-> bound[s], failed |-> sendErr,
                        err |-> h.err, logged |-> h.logged]
    /\ UNCHANGED <<services, published, procs, exportCalls, bound, lastReturn>>
    /\ UNCHANGED subVars
    /\ UNCHANGED fnVars

(* ------------------------------ publishing ---------------------------- *)
PublishTopics == { "$device/1/event/state", "$cfg" }

\* "value": a payload json.Marshal accepts; "unmarshalable": one it rejects
PublishPayloads == { "value", "unmarshalable" }

NoPublish == [fn |-> "none", marshalFailed |-> FALSE, publishFailed |-> FALSE,
              err |-> FALSE]

\* PublishRaw / PublishRawSingleValue: marshal (the variadic payload as a JSON
\* array, the single value as itself), publish, return
publishRaw(fn, topic, payload, publishFails) ==
    IF payload = "unmarshalable"
    THEN [sent |-> <<>>, err |-> TRUE, marshalFailed |-> TRUE, publishFailed |-> FALSE]
    ELSE [sent |-> IF publishFails THEN <<>>
                   ELSE <<[topic |-> topic, array |-> (fn = "PublishRaw"),
                           body |-> payload]>>,
          err |-> FALSE, marshalFailed |-> FALSE, publishFailed |-> publishFails]

Publish(fn, topic, payload, publishFails) ==
    /\ Len(busLog) < MaxPublishes
    /\ LET r == publishRaw(fn, topic, payload, publishFails)
       IN  /\ busLog' = busLog \o r.sent
           /\ lastPublish' = [fn |-> fn, marshalFailed |-> r.marshalFailed,
                              publishFailed |-> r.publishFailed, err |-> r.err]
    /\ UNCHANGED <<mTemplate, mTopic, mResult>>
    /\ UNCHANGED schVars
    /\ UNCHANGED subVars
    /\ UNCHANGED expVars

\* PublishRaw sends a simple message
PublishRaw(topic, payload, publishFails) ==
    Publish("PublishRaw", topic, payload, publishFails)

\* PublishRawSingleValue sends a simple message with a single json payload
PublishRawSingleValue(topic, payload, publishFails) ==
    Publish("PublishRawSingleValue", topic, payload, publishFails)

(* ---------------------------- topic matching -------------------------- *)
MatchTemplates ==
    { <<Lit("$device"), Ph("id"), Lit("channel"), Ph("ch")>>,
      <<Lit("$device"), Ph("id")>>,
      <<Lit("$device"), Lit("42")>>,
      <<Ph("id")>>,
      <<Ph("id"), Lit("channel"), Lit("motion")>>,
      <<Lit("$device"), Lit("#")>> }

TopicSegs == { "$device", "42", "channel", "motion" }

MatchTopics == UNION { [1..n -> TopicSegs] : n \in 1..MaxSegs }

NoResult == [done |-> FALSE, ok |-> FALSE, values |-> NoValues]

\* values, ok := MatchTopicPattern(topic, incomingTopic)
ApplyMatch ==
    /\ ~mResult.done
    /\ LET m == MatchTopicPattern(mTemplate, mTopic)
       IN  mResult' = [done |-> TRUE, ok |-> m.ok, values |-> m.values]
    /\ UNCHANGED <<mTemplate, mTopic, busLog, lastPublish>>
    /\ UNCHANGED schVars
    /\ UNCHANGED subVars
    /\ UNCHANGED expVars

(* ------------------------------ schema cache -------------------------- *)
\* schemas.root, without its trailing slash, and the prefix that replaces it
root == "http://schema.ninjablocks.com"
LocalPrefix == "file://"

\* document URLs passed to GetSchema: relative and absolute references to the
\* same two schemas, a schema on another host, and a string that does not
\* parse as a JSON reference
DocURLs ==
    { [valid |-> TRUE, host |-> "", path |-> "/service/device"],
      [valid |-> TRUE, host |-> root, path |-> "/service/device"],
      [valid |-> TRUE, host |-> "", path |-> "/protocol/power"],
      [valid |-> TRUE, host |-> "http://example.org", path |-> "/other"],
      [valid |-> FALSE, host |-> "", path |-> "%zz"] }

\* resolveUrl: parse the reference and resolve it against rootURL
resolveUrl(url) ==
    IF ~url.valid THEN [err |-> TRUE, url |-> url]
    ELSE [err |-> FALSE,
          url |-> [url EXCEPT !.host = IF url.host = "" THEN root ELSE url.host]]

\* useLocalUrl: the schema root is replaced by "file:///"
useLocalUrl(url) ==
    [host |-> IF url.host = root THEN LocalPrefix ELSE url.host, path |-> url.path]

SchemaKeys == { useLocalUrl(resolveUrl(u).url) : u \in { v \in DocURLs : v.valid } }

NoKey == [host |-> "", path |-> ""]
NoEntry == [present |-> FALSE, schema |-> <<>>, err |-> FALSE]
NoFirst == [seen |-> FALSE, schema |-> <<>>, err |-> FALSE]
NoGet == [called |-> FALSE, resolved |-> FALSE, key |-> NoKey, hit |-> FALSE,
          schema |-> <<>>, err |-> FALSE]

\* gojsonschema.NewJsonSchemaDocument(local, schemaPool): a new document, or
\* nil and an error; <<>> stands for nil, <<local, n>> for the n-th document
\* built for local
NewJsonSchemaDocument(local, n, loadFails) ==
    IF loadFails THEN [schema |-> <<>>, err |-> TRUE]
    ELSE [schema |-> <<local, n>>, err |-> FALSE]

\* variant: a cached response that holds an error is not used, the document
\* is built again
getSchemaRetriesErrors(cache, nbuilt, documentURL, loadFails) ==
    LET r == resolveUrl(documentURL)
        local == useLocalUrl(r.url)
    IN  IF r.err
        THEN [resolved |-> FALSE, key |-> NoKey, hit |-> FALSE, schema |-> <<>>,
              err |-> TRUE, cache |-> cache, nbuilt |-> nbuilt]
        ELSE IF cache[local].present /\ ~cache[local].err
        THEN [resolved |-> TRUE, key |-> local, hit |-> TRUE,
              schema |-> cache[local].schema, err |-> cache[local].err,
              cache |-> cache, nbuilt |-> nbuilt]
        ELSE LET d == NewJsonSchemaDocument(local, nbuilt[local] + 1, loadFails)
             IN  [resolved |-> TRUE, key |-> local, hit |-> FALSE,
                  schema |-> d.schema, err |-> d.err,
                  cache |-> [cache EXCEPT ![local] =
                               [present |-> TRUE, schema |-> d.schema, err |-> d.err]],
                  nbuilt |-> [nbuilt EXCEPT ![local] = @ + 1]]

\* GetSchema: resolve, look the local URL up in schemasCache, on a miss build
\* the document and cache the (schema, err) pair, return the pair
getSchema(cache, nbuilt, documentURL, loadFails) ==
    LET r == resolveUrl(documentURL)
        local == useLocalUrl(r.url)
    IN  IF r.err
        THEN [resolved |-> FALSE, key |-> NoKey, hit |-> FALSE, schema |-> <<>>,
              err |-> TRUE, cache |-> cache, nbuilt |-> nbuilt]
        ELSE IF cache[local].present
        THEN [resolved |-> TRUE, key |-> local, hit |-> TRUE,
              schema |-> cache[local].schema, err |-> cache[local].err,
              cache |-> cache, nbuilt |-> nbuilt]
        ELSE LET d == NewJsonSchemaDocument(local, nbuilt[local] + 1, loadFails)
             IN  [resolved |-> TRUE, key |-> local, hit |-> FALSE,
                  schema |-> d.schema, err |-> d.err,
                  cache |-> [cache EXCEPT ![local] =
                               [present |-> TRUE, schema |-> d.schema, err |-> d.err]],
                  nbuilt |-> [nbuilt EXCEPT ![local] = @ + 1]]

\* one call of GetSchema(documentURL); loadFails: building the document fails
GetSchema(documentURL, loadFails) ==
    /\ gets < MaxGets
    /\ gets' = gets + 1
    /\ LET g == getSchema(schemasCache, built, documentURL, loadFails)
       IN  /\ schemasCache' = g.cache
           /\ built' = g.nbuilt
           /\ lastGet' = [called |-> TRUE, resolved |-> g.resolved, key |-> g.key,
                          hit |-> g.hit, schema |-> g.schema, err |-> g.err]
           /\ firstGet' = IF g.resolved /\ ~firstGet[g.key].seen
                          THEN [firstGet EXCEPT ![g.key] =
                                  [seen |-> TRUE, schema |-> g.schema, err |-> g.err]]
                          ELSE firstGet
    /\ UNCHANGED <<mTemplate, mTopic, mResult, busLog, lastPublish>>
    /\ UNCHANGED subVars
    /\ UNCHANGED expVars

(* ---------------------------- specifications -------------------------- *)
NoEmit == [kind |-> "none", failed |-> FALSE, err |-> FALSE, logged |-> FALSE]

InitConn ==
    /\ subState = "none"
    /\ subRpc = FALSE
    /\ subTemplate = <<>>
    /\ subShape = NoShape
    /\ subErr = FALSE
    /\ busSubs = 0
    /\ subHandle = "nil"
    /\ busCancelled = FALSE
    /\ finished = FALSE
    /\ tasks = [t \in Tasks |-> IdleTask]
    /\ delivered = 0
    /\ falseSeen = FALSE
    /\ cancelCalls = 0
    /\ panicked = FALSE
    /\ lastMsg = [topic |-> <<>>, kind |-> "none", dropped |-> FALSE]
    /\ falseReturns = 0
    /\ lastDropSeq = 0
    /\ services = <<DiscoverEntry>>
    /\ published = <<DiscoverEntry>>
    /\ procs = [p \in Procs |-> IdleProc]
    /\ exportCalls = 0
    /\ bound = [s \in ServiceIds |-> "none"]
    /\ lastEmit = NoEmit
    /\ lastReturn = [call |-> DiscoverEntry.by, result |-> "ok"]
    /\ busLog = <<>>
    /\ lastPublish = NoPublish
    /\ schemasCache = [k \in SchemaKeys |-> NoEntry]
    /\ built = [k \in SchemaKeys |-> 0]
    /\ gets = 0
    /\ lastGet = NoGet
    /\ firstGet = [k \in SchemaKeys |-> NoFirst]

Init ==
    /\ InitConn
    /\ mTemplate = <<>>
    /\ mTopic = <<>>
    /\ mResult = NoResult

NextSubscribe ==
    \/ \E rpc \in BOOLEAN, template \in Templates, shape \in Shapes :
          Subscribe(rpc, template, shape)
    \/ SubscribeReturn
    \/ \E t \in Tasks, topic \in Topics, kind \in {"good", "badshape", "badparams", "badjson"} :
          Deliver(t, topic, kind)
    \/ \E t \in Tasks : AdapterInvoke(t)
    \/ \E t \in Tasks, r \in BOOLEAN : CallbackReturn(t, r)

NextExport ==
    \/ \E p \in Procs, svc \in ServiceObjs, req \in ExportRequests,
          m \in DeclaredMethods, regFails \in BOOLEAN, sendFails \in BOOLEAN :
          ExportBegin(p, svc, req.topic,
                      [schema |-> req.schema, topic |-> "", methods |-> m,
                       events |-> req.events],
                      regFails, sendFails)
    \/ \E p \in Procs : ExportRead(p)
    \/ \E p \in Procs : ExportWrite(p)
    \/ \E s \in ServiceIds, sendErr \in BOOLEAN : Emit(s, sendErr)

InitMatch ==
    /\ InitConn
    /\ mTemplate \in MatchTemplates
    /\ mTopic \in MatchTopics
    /\ mResult = NoResult

NextMatch == ApplyMatch

NextPublish ==
    \/ \E topic \in PublishTopics, payload \in PublishPayloads, publishFails \in BOOLEAN :
          PublishRaw(topic, payload, publishFails)
    \/ \E topic \in PublishTopics, payload \in PublishPayloads, publishFails \in BOOLEAN :
          PublishRawSingleValue(topic, payload, publishFails)

NextSchema ==
    \E documentURL \in DocURLs, loadFails \in BOOLEAN : GetSchema(documentURL, loadFails)

SpecSchema == Init /\ [][NextSchema]_vars
SpecMatch == InitMatch /\ [][NextMatch]_vars
SpecPublish == Init /\ [][NextPublish]_vars
SpecSubscribe == Init /\ [][NextSubscribe]_vars
SpecExport == Init /\ [][NextExport]_vars

(* ------------------------------ properties ---------------------------- *)
InCallback == { t \in Tasks : tasks[t].pc = "callback" }
Entries(log) == Range(log)
AllEntries == Entries(published) \cup Entries(services)
InFlight == { procs[p].entry : p \in { q \in Procs : procs[q].pc # "idle" } }
TooLong(call) == call.methods.set /\ Len(call.methods.val) > Len(call.svc.methods)

\* C1: once an invocation of the callback has returned false, no invocation
\* of the callback starts any more for that subscription.
C1_NoCallAfterFalse ==
    \A t \in Tasks : tasks[t].pc = "callback" => ~tasks[t].late

\* C2: at most one invocation of the callback is in flight at any time.
C2_OneInFlight == Cardinality(InCallback) <= 1

\* C3 (as stated): a message whose topic does not match the template never
\* reaches the callback; the handler drops it.
C3_MismatchDropped ==
    /\ \A t \in Tasks : tasks[t].pc \in {"adapter", "callback"} => tasks[t].matched
    /\ (lastMsg.kind # "none" /\ ~MatchTopicPattern(subTemplate, lastMsg.topic).ok)
          => lastMsg.dropped

\* C3 (amended): a message whose topic does not match the template is not
\* dropped for that reason: unless its body is unparsable the handler goes on
\* to the adapter with an empty placeholders map, and the callback is run with
\* that empty map.
C3_MismatchGetsEmptyValues ==
    /\ (lastMsg.kind \notin {"none", "badjson"}
          /\ ~MatchTopicPattern(subTemplate, lastMsg.topic).ok) => ~lastMsg.dropped
    /\ \A t \in Tasks :
          (tasks[t].pc \in {"adapter", "callback"}
             /\ ~MatchTopicPattern(subTemplate, tasks[t].topic).ok)
          => /\ tasks[t].values = NoValues
             /\ (tasks[t].pc = "callback" /\ Len(tasks[t].args) = 2)
                   => tasks[t].args[2] = NoValues

C3_Witness ==
    \E t \in Tasks :
        /\ tasks[t].pc = "callback"
        /\ Len(tasks[t].args) = 2
        /\ ~MatchTopicPattern(subTemplate, tasks[t].topic).ok

\* C4: an exportService call whose declared SupportedMethods is longer than
\* the discovered method list returns an error, sends no "announce" and
\* records nothing in the services registry.
C4_TooManyDeclaredRejected ==
    /\ TooLong(lastReturn.call) => lastReturn.result # "ok"
    /\ \A e \in AllEntries \cup InFlight : ~TooLong(e.by)

C4_Witness ==
    /\ TooLong(lastReturn.call)
    /\ lastReturn.result = "methods"
    /\ Len(lastReturn.call.svc.methods) = 3

\* C5: an exportService call that declares a method the registrar did not
\* discover returns an error (so nothing it declares is announced or recorded).
C5_UndiscoveredMethodRejected ==
    /\ \A e \in AllEntries \cup InFlight :
          e.by.methods.set => Range(e.by.methods.val) \subseteq Range(e.by.svc.methods)
    /\ (lastReturn.call.methods.set /\ lastReturn.result = "ok")
          => Range(lastReturn.call.methods.val) \subseteq Range(lastReturn.call.svc.methods)

\* C6: when no export is in progress, the registry holds exactly one
\* announcement per successful export, equal to the one that export announced.
C6_RegistryMatchesAnnounces ==
    (\A p \in Procs : procs[p].pc = "idle")
        => /\ Len(services) = Len(published)
           /\ Entries(services) = Entries(published)

\* C7: no append to the registry is lost: the announcement of every export
\* that has returned successfully is in the registry.
C7_NoLostAppend ==
    \A e \in Entries(published) : e \in InFlight \/ e \in Entries(services)

\* C8 (as stated): when SendEvent fails inside a bound event handler the
\* failure is logged and the handler does not return the error.
C8_EmitErrorSwallowed ==
    lastEmit.failed => (lastEmit.logged /\ ~lastEmit.err)

\* C8 (amended): the bound event handler returns the outcome of SendEvent to
\* the emitter unchanged; a failure is logged by the variadic handler only.
C8_EmitErrorReturned ==
    /\ lastEmit.err = lastEmit.failed
    /\ lastEmit.logged = (lastEmit.failed /\ lastEmit.kind = "variadic")

C8_Witness == lastEmit.failed /\ lastEmit.kind = "variadic" /\ lastEmit.err

\* C9: with no declared SupportedMethods, the announcement published and the
\* one recorded both carry exactly the methods the registrar discovered.
C9_UndeclaredAdoptsDiscovered ==
    \A e \in AllEntries \cup InFlight :
        ~e.by.methods.set
           => /\ e.ann.methods.set
              /\ Range(e.ann.methods.val) = Range(e.by.svc.methods)

C9_Witness ==
    \E i \in 1..Len(services) :
        /\ services[i].by.id > 0
        /\ ~services[i].by.methods.set
        /\ services[i] \in Entries(published)

\* the shapes the documentation of Subscribe rules out
IllegalShape(s) ==
    \/ s.kind # "func"
    \/ s.numIn > 2
    \/ s.numIn = 2 /\ s.in1 # "map"
    \/ s.numIn >= 1 /\ s.in0 = "nonptr"
    \/ s.numOut # 1
    \/ s.out0 # "bool"

Undecodable(shape, params) ==
    /\ shape.numIn \in {1, 2}
    /\ ~IsRawCallbackType(shape)
    /\ \/ params = "empty"
       \/ params = "bad" /\ shape.in0 = "structptr"

\* C11: a message whose payload cannot be decoded into the callback's target
\* type ends in the adapter: the callback is not entered, nothing is cancelled,
\* and as long as no callback has returned false the subscription stays live
\* for later messages.
C11_DecodeFailureDropsOnly ==
    /\ []((lastDropSeq > 0 /\ falseReturns = 0)
            => (~busCancelled /\ ~finished /\ ~panicked /\ cancelCalls = 0))
    /\ [][\A t \in Tasks :
            (tasks[t].pc = "adapter" /\ tasks'[t].pc # "adapter"
               /\ Undecodable(subShape, tasks[t].params))
            => /\ tasks'[t].pc = "idle"
               /\ cancelCalls' = cancelCalls
               /\ busCancelled' = busCancelled
               /\ finished' = finished]_vars

C11_Witness ==
    \E t \in Tasks :
        /\ tasks[t].pc = "callback"
        /\ tasks[t].params = "ok"
        /\ subShape.in0 = "structptr"
        /\ lastDropSeq > 0
        /\ tasks[t].seq > lastDropSeq

\* C13: the handler calls sub.Cancel() at most once per subscription.
C13_CancelAtMostOnce == cancelCalls <= 1

\* C14: the callback is entered with as many arguments as it declares: none
\* for 0 parameters, the decoded value for 1, the decoded value and the
\* placeholders matched from the inbound topic for 2.
C14_ArgsMatchShape ==
    \A t \in Tasks :
        tasks[t].pc = "callback"
           => /\ Len(tasks[t].args) = subShape.numIn
              /\ subShape.numIn >= 1
                    => tasks[t].args[1] =
                          (IF IsRawCallbackType(subShape) THEN tasks[t].params
                           ELSE "decoded")
              /\ subShape.numIn = 2
                    => tasks[t].args[2] =
                          MatchTopicPattern(subTemplate, tasks[t].topic).values

C14_Witness ==
    \E t \in Tasks :
        /\ tasks[t].pc = "callback"
        /\ subShape.numIn = 2
        /\ subShape.in0 = "structptr"
        /\ tasks[t].args = <<"decoded", {<<"id", "a">>}>>

\* C17: callback invocations follow delivery order: a message that is still
\* to be handed to the callback was delivered after every message whose
\* invocation has already started.
C17_InvocationOrder ==
    \A t1, t2 \in Tasks :
        (/\ tasks[t1].pc = "callback"
         /\ tasks[t2].pc = "adapter"
         /\ invoke(subShape, tasks[t2].params, tasks[t2].values).call)
        => tasks[t2].seq > tasks[t1].seq

\* C19: sub.Cancel() is called exactly when a callback invocation returns
\* false, in the step in which it returns; dropped messages and invocations
\* that return true never cancel.
C19_CancelOnlyAfterFalse ==
    /\ [](cancelCalls = falseReturns)
    /\ [][cancelCalls' # cancelCalls
            => \E t \in Tasks : tasks[t].pc = "callback" /\ tasks'[t].pc = "idle"]_vars

C19_Witness ==
    /\ cancelCalls = 1
    /\ busCancelled
    /\ lastDropSeq > 0
    /\ lastMsg.dropped

\* C20: for an RPC subscription a message with a malformed envelope or
\* malformed inner params is dropped by the handler; for a raw subscription
\* the adapter is given the message body.
C20_MalformedRpcDropped ==
    /\ (subRpc /\ lastMsg.kind \in {"badjson", "badparams"}) => lastMsg.dropped
    /\ \A t \in Tasks :
          (~subRpc /\ tasks[t].pc \in {"adapter", "callback"})
             => tasks[t].params \in {"ok", "bad"}

Failed(call) == call.regFails \/ call.sendFails

\* C12: an exportService call in which the registrar registration or the
\* announce publish fails returns an error and leaves the registry and the
\* event-handler bindings as they were.
C12_FailedExportChangesNothing ==
    /\ [](/\ Failed(lastReturn.call) => lastReturn.result # "ok"
          /\ \A e \in AllEntries \cup InFlight : ~Failed(e.by))
    /\ [][(lastReturn' # lastReturn /\ Failed(lastReturn'.call))
            => (services' = services /\ bound' = bound)]_vars

C12_Witness ==
    /\ lastReturn.call.sendFails
    /\ ~lastReturn.call.regFails
    /\ ~TooLong(lastReturn.call)
    /\ lastReturn.result # "ok"
    /\ Len(services) = 2
    /\ bound[lastReturn.call.svc.id] = "none"

\* C18: the registry only grows at its end: its contents before any step are
\* a prefix of its contents after it.
C18_AppendOnly ==
    [][/\ Len(services') >= Len(services)
       /\ SubSeq(services', 1, Len(services)) = services]_vars

ExampleTemplate == <<Lit("$device"), Ph("id"), Lit("channel"), Ph("ch")>>
ExampleTopic == <<"$device", "42", "channel", "motion">>

\* C15: matching succeeds exactly when template and topic have the same
\* number of segments and every literal segment of the template equals the
\* topic's segment at that position; on success each placeholder is mapped to
\* the topic's segment at its position.
C15_MatchIffSegmentsAgree ==
    mResult.done
       => /\ mResult.ok <=>
                (/\ Len(mTemplate) = Len(mTopic)
                 /\ \A i \in 1..Len(mTemplate) :
                       mTemplate[i].kind = "lit" => mTemplate[i].name = mTopic[i])
          /\ mResult.ok =>
                \A i \in 1..Len(mTemplate) :
                    mTemplate[i].kind = "ph"
                       => /\ <<mTemplate[i].name, mTopic[i]>> \in mResult.values
                          /\ \A v \in mResult.values :
                                v[1] = mTemplate[i].name => v[2] = mTopic[i]
          /\ (mTemplate = ExampleTemplate /\ mTopic = ExampleTopic)
                => /\ mResult.ok
                   /\ mResult.values = { <<"id", "42">>, <<"ch", "motion">> }
          /\ (mTemplate = <<Lit("$device"), Ph("id")>> /\ mTopic = ExampleTopic)
                => ~mResult.ok

C15_Witness ==
    /\ mResult.done
    /\ mResult.ok
    /\ mTemplate = ExampleTemplate
    /\ mTopic = ExampleTopic

\* C16: when the bus publish fails inside PublishRaw or PublishRawSingleValue
\* the call returns a non-nil error.
C16_PublishFailureSurfaced ==
    lastPublish.publishFailed => lastPublish.err

\* C21: every announcement in the registry carries the topic of its
\* exportService call, the call's schema URI made absolute against the schema
\* root, and both SupportedMethods and SupportedEvents set (SupportedEvents
\* empty when the caller left it unset).
C21_RegistryEntriesPopulated ==
    \A e \in Entries(services) :
        /\ e.ann.topic = e.by.topic
        /\ e.ann.schema.path = e.by.schema.path
        /\ e.ann.schema.host = (IF e.by.schema.host = "" THEN RootHost
                                ELSE e.by.schema.host)
        /\ e.ann.methods.set
        /\ e.ann.events.set
        /\ ~e.by.events.set => e.ann.events.val = <<>>
        /\ e.by.events.set => e.ann.events = e.by.events

C21_Witness ==
    \E i \in 1..Len(services) :
        /\ services[i].by.id > 0
        /\ services[i].by.schema.host = ""
        /\ ~services[i].by.events.set
        /\ services[i].ann.topic = "$device/1"

\* C22: sub.Cancel() is never called while the variable sub is still nil.
C22_HandleAssignedBeforeCancel == ~panicked

\* C23: for every local URL the schema document is built at most once, and
\* every GetSchema call for it returns the (schema, error) pair the first call
\* for it returned, also when that first load failed.
C23_SchemaLoadedOnce ==
    /\ \A k \in SchemaKeys : built[k] <= 1
    /\ lastGet.resolved
          => /\ firstGet[lastGet.key].seen
             /\ lastGet.schema = firstGet[lastGet.key].schema
             /\ lastGet.err = firstGet[lastGet.key].err

C23_Witness ==
    /\ gets >= 2
    /\ lastGet.resolved
    /\ lastGet.hit
    /\ lastGet.err
    /\ built[lastGet.key] = 1

====
